---- MODULE Spec2Model ----
(***************************************************************************)
(* A model of the glitch generator: the GlitchProcessor class              *)
(* (client/src/lib/glitchProcessor.ts) and the Home page that drives it    *)
(* (client/src/pages/Home.tsx).                                            *)
(*                                                                         *)
(* Numbers.  JavaScript numbers are IEEE doubles.  Integer-valued          *)
(* computations are modelled exactly.  Real-valued ones (Math.sin,         *)
(* Math.cos, the Mandelbrot orbit, the noise sum) are modelled in fixed    *)
(* point with FP units per 1.0; a rational p/q is kept exact wherever the  *)
(* code rounds it (Math.round, Math.floor, the Uint8ClampedArray store).   *)
(* The fixed-point sine agrees with Math.sin to about 1/FP: where the code *)
(* rounds a real value that lies within that distance of a rounding        *)
(* boundary, the model's pixel can differ from the code's by one step.     *)
(* On the buffers and params of the effect harness the model's output was  *)
(* compared with the code's arithmetic in doubles and is equal.            *)
(***************************************************************************)
EXTENDS Integers, Sequences, FiniteSets, TLC

VARIABLES
    srcW,        \* sourceImage.width
    srcH,        \* sourceImage.height
    srcData,     \* the pixels of sourceImage, flat RGBA, indices 0..4*w*h-1
    width,       \* this.width
    height,      \* this.height
    canvasW,     \* this.canvas.width
    canvasH,     \* this.canvas.height
    canvasData,  \* the bitmap of the canvas, flat RGBA
    imageData,   \* this.imageData (the constructor's snapshot)
    status,      \* "new" | "ready" | "threw": where the constructor ended
    error,       \* the name of the exception the constructor threw, or "none"
    calls,       \* number of process() calls on this instance
    lastCall,    \* what the last process() call did (history)
    prevCall,    \* the call before it (history, kept for direct calls only)
    step,        \* Home: step, "landing" | "editor" | "export"
    sourceImage, \* Home: sourceImage, the decoded upload or null
    params,      \* Home: params
    exportFormat,\* Home: exportFormat, "png" | "jpeg"
    canvasRef,   \* Home: canvasRef.current, "canvas" when mounted, else "null"
    loads,       \* Home: the uploads (FileReader, then Image, then done)
    presetTable, \* Home: the PRESETS object, name -> EffectParams
    paramsRef,   \* Home: which object params is: a PRESETS key,
                 \* "DEFAULT_PARAMS", or "spread" for an object literal
    exported     \* Home: what the last DOWNLOAD click did (history)

processorVars ==
    << srcW, srcH, srcData, width, height, canvasW, canvasH, canvasData,
       imageData, status, error, calls, lastCall, prevCall >>

pageVars == << step, sourceImage, params, exportFormat, canvasRef, loads,
               presetTable, paramsRef, exported >>

vars == << processorVars, pageVars >>

(***************************************************************************)
(* Bounds of the model.                                                    *)
(***************************************************************************)
MaxHundreds == 20   \* load harness: source sizes up to 100 * MaxHundreds
MaxW == 2           \* effect harness: buffer widths 1..MaxW
MaxH == 2           \* effect harness: buffer heights 1..MaxH
MaxFile == 1        \* page: the image files 1..MaxFile
MaxUploads == 2     \* page: uploads that can be in flight together
MaxImage == 2       \* effect harness: test images 0..MaxImage
MaxIter == 2        \* effect harness: iterations 1..MaxIter
MaxGrid == 4        \* cellular harness: grids of 3..MaxGrid cells a side
MaxGridImage == 20  \* cellular harness: test images 1..MaxGridImage
MaxCalls == 2       \* effect harness: process() calls per instance
MaxOffsetIter == 32 \* chromatic harness: iterations 1..MaxOffsetIter

(***************************************************************************)
(* Arithmetic of JavaScript numbers.                                       *)
(***************************************************************************)
Abs(a) == IF a < 0 THEN -a ELSE a

Min(a, b) == IF a < b THEN a ELSE b

\* a % b of JavaScript for integers a and b > 0: the result has the sign of a.
JsMod(a, b) == IF a >= 0 THEN a % b ELSE -((-a) % b)

\* Math.floor(num / den), den > 0.
MathFloor(num, den) == num \div den

\* Math.round(num / den), den > 0: the nearest integer, a tie going up.
MathRound(num, den) == (2 * num + den) \div (2 * den)

\* Whether num / den lies exactly halfway between two integers.
IsTie(num, den) == (2 * num) % (2 * den) = den

(***************************************************************************)
(* GlitchProcessor.constructor: the size of the working buffer.            *)
(***************************************************************************)
maxWidth == 800

maxHeight == 600

\* Math.round(a / (b / c)) and Math.round(a * (b / c)) as the constructor
\* computes them: the quotient b / c is rounded to a double first, so when
\* the exact value is a tie the double may fall just below it.  Both
\* outcomes are kept.
RoundScaled(num, den) ==
    IF IsTie(num, den)
    THEN {MathRound(num, den), MathRound(num, den) - 1}
    ELSE {MathRound(num, den)}

\* A constructor that never lets a dimension drop below 1.
ScaledDimsAtLeastOne(w, h) ==
    LET atLeastOne(v) == IF v < 1 THEN 1 ELSE v
        scaled ==
            IF w > maxWidth \/ h > maxHeight
            THEN IF w > h
                 THEN {<<maxWidth, hh>> : hh \in RoundScaled(maxWidth * h, w)}
                 ELSE {<<ww, maxHeight>> : ww \in RoundScaled(maxHeight * w, h)}
            ELSE {<<w, h>>}
    IN  {<<atLeastOne(d[1]), atLeastOne(d[2])>> : d \in scaled}

\* A constructor that scales every image to a bound, the small ones too.
ScaledDimsToFit(w, h) ==
    IF w = 0 \/ h = 0 THEN {<<w, h>>}
    ELSE IF w > h
         THEN {<<maxWidth, hh>> : hh \in RoundScaled(maxWidth * h, w)}
         ELSE {<<ww, maxHeight>> : ww \in RoundScaled(maxHeight * w, h)}

\* Lines 23-35: the set of (width, height) the constructor may arrive at.
ScaledDims(w, h) ==
    IF w > maxWidth \/ h > maxHeight
    THEN IF w > h
         THEN {<<maxWidth, hh>> : hh \in RoundScaled(maxWidth * h, w)}
         ELSE {<<ww, maxHeight>> : ww \in RoundScaled(maxHeight * w, h)}
    ELSE {<<w, h>>}

\* ctx.getImageData(0, 0, w, h) throws IndexSizeError when w or h is 0.
GetImageDataThrows(w, h) == w = 0 \/ h = 0

(***************************************************************************)
(* Fixed-point model of the real-valued arithmetic.                        *)
(***************************************************************************)
FP == 10000        \* fixed-point units per 1.0

PiFP == 31415      \* Math.PI: the double lies just below pi

HalfTurn == 31416  \* pi itself, half the period of Math.sin

\* a * b / FP for fixed-point a and b, split so that no product overflows.
MulFP(a, b) == (a \div FP) * b + ((a % FP) * b) \div FP

\* The Taylor polynomial of sin on [0, pi/2], x in fixed point.
SinPoly(x) ==
    LET x2 == (x * x) \div FP
        t3 == (x * x2) \div (6 * FP)
        t5 == (t3 * x2) \div (20 * FP)
        t7 == (t5 * x2) \div (42 * FP)
        t9 == (t7 * x2) \div (72 * FP)
    IN  x - t3 + t5 - t7 + t9

\* Math.sin(a), a in fixed-point radians, result in fixed point.
SinFP(a) ==
    LET r == a % (2 * HalfTurn)
        s == IF r >= HalfTurn THEN r - HalfTurn ELSE r
        x == IF 2 * s > HalfTurn THEN HalfTurn - s ELSE s
    IN  IF r >= HalfTurn THEN -SinPoly(x) ELSE SinPoly(x)

\* Math.cos(a), a in fixed-point radians, result in fixed point.
CosFP(a) == SinFP(a + HalfTurn \div 2)

(***************************************************************************)
(* Pixel buffers: ImageData.data, a Uint8ClampedArray, is a function on    *)
(* 0 .. 4*W*H-1.                                                           *)
(***************************************************************************)
\* A store into an array of plain numbers: rounded, but not clamped.
ToNumberRounded(num, den) ==
    LET q == num \div den
        r == num % den
    IN  IF 2 * r < den THEN q
        ELSE IF 2 * r > den THEN q + 1
        ELSE IF q % 2 = 0 THEN q ELSE q + 1

\* Storing the number num / den (den > 0) into a Uint8ClampedArray: rounded
\* to the nearest integer, a tie going to the even one, clamped to 0..255.
ToUint8Clamped(num, den) ==
    LET q == num \div den
        r == num % den
        n == IF 2 * r < den THEN q
             ELSE IF 2 * r > den THEN q + 1
             ELSE IF q % 2 = 0 THEN q ELSE q + 1
    IN  IF n < 0 THEN 0 ELSE IF n > 255 THEN 255 ELSE n

\* Whether data[idx] is an element of the array (otherwise it reads undefined).
InBuffer(data, idx) == idx \in DOMAIN data

\* newData[dst] = data[idx]: an undefined value is stored as 0.
CopyChannel(data, idx) == IF InBuffer(data, idx) THEN data[idx] ELSE 0

\* The index of the red channel of pixel (x, y): (y * width + x) * 4.
PixelIdx(x, y, W) == (y * W + x) * 4

(***************************************************************************)
(* applyChromaticAberration, lines 76-121.                                 *)
(***************************************************************************)
\* Line 85: Math.floor(params.intensity * 0.2).
ChromaticOffsetAmount(intensity) == MathFloor(intensity * 2, 10)

\* An offset rounded down once, from intensity * 0.2 * (i + 1) / iterations.
ChromaticOffsetFlooredOnce(intensity, i, n) ==
    MathFloor(intensity * 2 * (i + 1), 10 * n)

\* Line 89: Math.floor((offsetAmount * (i + 1)) / iterations).
ChromaticOffset(intensity, i, n) ==
    MathFloor(ChromaticOffsetAmount(intensity) * (i + 1), n)

\* Line 90: (i / iterations) * Math.PI * 2, in fixed point.
ChromaticAngle(i, n) == (2 * PiFP * i) \div n

\* Line 91: Math.round(Math.cos(angle) * offset).
ChromaticDx(intensity, i, n) ==
    MathRound(CosFP(ChromaticAngle(i, n)) * ChromaticOffset(intensity, i, n), FP)

\* Line 92: Math.round(Math.sin(angle) * offset).
ChromaticDy(intensity, i, n) ==
    MathRound(SinFP(ChromaticAngle(i, n)) * ChromaticOffset(intensity, i, n), FP)

\* Lines 97-98: the source coordinate read for destination (x, y), given the
\* deltas of the iteration.
ChromaticWrap(x, y, dx, dy, W, H) ==
    << JsMod(x + dx + W, W), JsMod(y + dy + H, H) >>

\* The source coordinate read at iteration i for destination (x, y).
ChromaticSrc(x, y, i, p, W, H) ==
    ChromaticWrap(x, y, ChromaticDx(p.intensity, i, p.iterations),
                  ChromaticDy(p.intensity, i, p.iterations), W, H)

\* A channel choice that cycles through all four channels, alpha included.
ChromaticChannelOfFour(i) == i % 4

\* Line 101: the channel iteration i blends.
ChromaticChannel(i) == i % 3

\* A pass that blends all three colour channels of a pixel, whatever ch is.
ChromaticPassAllColours(newData, data, ch, dx, dy, W, H) ==
    [k \in DOMAIN newData |->
        IF k % 4 = 3 THEN newData[k]
        ELSE LET pix == k \div 4
                 src == ChromaticWrap(pix % W, pix \div W, dx, dy, W, H)
                 srcIdx == PixelIdx(src[1], src[2], W) + (k % 4)
             IN  IF InBuffer(data, srcIdx)
                 THEN MathRound(newData[k] + data[srcIdx], 2)
                 ELSE 0]

\* Lines 94-116: one iteration over all pixels.  Only channel ch of a pixel
\* is written; an undefined sample makes the average NaN, stored as 0.
ChromaticPass(newData, data, ch, dx, dy, W, H) ==
    [k \in DOMAIN newData |->
        IF k % 4 # ch THEN newData[k]
        ELSE LET pix == k \div 4
                 src == ChromaticWrap(pix % W, pix \div W, dx, dy, W, H)
                 srcIdx == PixelIdx(src[1], src[2], W) + ch
             IN  IF InBuffer(data, srcIdx)
                 THEN MathRound(newData[k] + data[srcIdx], 2)
                 ELSE 0]

RECURSIVE ChromaticLoop(_, _, _, _, _, _)
\* Lines 88-117: iterations i .. n-1 of the loop.
ChromaticLoop(newData, data, i, p, W, H) ==
    IF i >= p.iterations THEN newData
    ELSE ChromaticLoop(
            ChromaticPass(newData, data, ChromaticChannel(i),
                          ChromaticDx(p.intensity, i, p.iterations),
                          ChromaticDy(p.intensity, i, p.iterations), W, H),
            data, i + 1, p, W, H)

RECURSIVE ChromaticAfter(_, _, _, _, _)
\* Lines 83-117: newData when iterations 0 .. j-1 of the loop are done; it
\* starts as a copy of data (line 83).
ChromaticAfter(j, data, p, W, H) ==
    IF j <= 0 THEN data
    ELSE ChromaticPass(ChromaticAfter(j - 1, data, p, W, H), data,
                       ChromaticChannel(j - 1),
                       ChromaticDx(p.intensity, j - 1, p.iterations),
                       ChromaticDy(p.intensity, j - 1, p.iterations), W, H)

\* The pixels applyChromaticAberration computes (newData at line 119).
applyChromaticAberration(data, p, W, H) == ChromaticLoop(data, data, 0, p, W, H)

(***************************************************************************)
(* applyFractalDisplacement, lines 123-178.                                *)
(***************************************************************************)
\* Lines 139-140: (x - width / 2) * (params.scale * 0.01), in fixed point.
FractalCoord(x, W, scale) == ((2 * x - W) * scale * FP) \div 200

RECURSIVE Mandelbrot(_, _, _, _, _, _, _)
\* Lines 146-159: the value of mandelbrotValue when the loop ends; m is its
\* value so far, i the loop index.
Mandelbrot(px, py, zx, zy, i, n, m) ==
    IF i >= n THEN m
    ELSE LET zx2 == MulFP(zx, zx)
             zy2 == MulFP(zy, zy)
         IN  IF zx2 + zy2 > 4 * FP THEN i
             ELSE Mandelbrot(px, py, zx2 - zy2 + px, 2 * MulFP(zx, zy) + py,
                             i + 1, n, i)

\* mandelbrotValue of pixel (x, y).
MandelbrotValue(x, y, p, W, H) ==
    Mandelbrot(FractalCoord(x, W, p.scale), FractalCoord(y, H, p.scale),
               0, 0, 0, p.iterations, 0)

\* The << iterations, << mandelbrotValue, intensity >> >>, iterations in 1..64
\* and intensity in 0..100, whose double product (mandelbrotValue /
\* iterations) * intensity lies below the integer it is exactly:
\* (3 / 11) * 55 is 14.999999999999998.
FractalBelowInteger ==
           ({10} \X {<<7, 90>>})
    \cup   ({11} \X {<<3, 55>>, <<3, 99>>, <<6, 55>>, <<6, 99>>})
    \cup   ({15} \X {<<11, 75>>})
    \cup   ({20} \X {<<14, 90>>})
    \cup   ({22} \X {<<6, 55>>, <<6, 99>>, <<12, 55>>, <<12, 99>>, <<15,
               22>>, <<15, 44>>, <<15, 88>>})
    \cup   ({23} \X {<<13, 23>>, <<13, 46>>, <<13, 92>>, <<21, 69>>})
    \cup   ({26} \X {<<15, 26>>, <<15, 52>>, <<15, 78>>})
    \cup   ({28} \X {<<17, 84>>})
    \cup   ({29} \X {<<17, 87>>})
    \cup   ({30} \X {<<21, 90>>, <<22, 75>>})
    \cup   ({31} \X {<<17, 93>>, <<21, 93>>})
    \cup   ({33} \X {<<9, 55>>, <<9, 99>>, <<18, 55>>, <<18, 99>>})
    \cup   ({39} \X {<<31, 39>>, <<31, 78>>})
    \cup   ({40} \X {<<28, 90>>})
    \cup   ({43} \X {<<23, 43>>, <<23, 86>>, <<31, 43>>, <<31, 86>>})
    \cup   ({44} \X {<<12, 55>>, <<12, 99>>, <<15, 44>>, <<15, 88>>, <<24,
               55>>, <<24, 99>>, <<30, 22>>, <<30, 44>>, <<30, 88>>})
    \cup   ({45} \X {<<13, 45>>, <<13, 90>>, <<26, 45>>, <<26, 90>>, <<33,
               75>>})
    \cup   ({46} \X {<<13, 46>>, <<13, 92>>, <<26, 23>>, <<26, 46>>, <<26,
               92>>, <<42, 69>>})
    \cup   ({47} \X {<<3, 47>>, <<3, 94>>, <<6, 47>>, <<6, 94>>, <<12, 47>>,
               <<12, 94>>, <<24, 47>>, <<24, 94>>, <<31, 47>>, <<31, 94>>})
    \cup   ({49} \X {<<1, 49>>, <<1, 98>>, <<2, 49>>, <<2, 98>>, <<4, 49>>,
               <<4, 98>>, <<8, 49>>, <<8, 98>>, <<16, 49>>, <<16, 98>>, <<27,
               49>>, <<27, 98>>, <<32, 49>>, <<32, 98>>})
    \cup   ({50} \X {<<29, 50>>, <<29, 100>>, <<35, 90>>})
    \cup   ({51} \X {<<31, 51>>})
    \cup   ({52} \X {<<15, 52>>, <<30, 26>>, <<30, 52>>, <<30, 78>>})
    \cup   ({55} \X {<<7, 55>>, <<14, 55>>, <<15, 55>>, <<15, 99>>, <<28,
               55>>, <<29, 55>>, <<30, 55>>, <<30, 99>>, <<31, 55>>})
    \cup   ({56} \X {<<34, 84>>})
    \cup   ({58} \X {<<31, 58>>, <<34, 87>>})
    \cup   ({60} \X {<<42, 90>>, <<44, 75>>})
    \cup   ({62} \X {<<34, 93>>, <<42, 93>>})

\* A displacement that forgets to scale the index by the intensity.
FractalDisplacementUnscaled(m, n, intensity) == m

\* Lines 161-163: Math.floor((mandelbrotValue / iterations) * intensity).
\* The quotient is rounded to a double before it is multiplied; where the
\* exact product is an integer the double product can lie just below it,
\* and the floor is one less.
FractalDisplacementOf(m, n, intensity) ==
    IF << n, << m, intensity >> >> \in FractalBelowInteger
    THEN MathFloor(m * intensity, n) - 1
    ELSE MathFloor(m * intensity, n)

\* The displacement of pixel (x, y).
FractalDisplacement(x, y, p, W, H) ==
    FractalDisplacementOf(MandelbrotValue(x, y, p, W, H), p.iterations, p.intensity)

\* Lines 164-165: the source coordinate for a displacement d.
DiagonalWrap(x, y, d, W, H) == << JsMod(x + d, W), JsMod(y + d, H) >>

\* The source coordinate read for destination (x, y).
FractalSrc(x, y, p, W, H) ==
    DiagonalWrap(x, y, FractalDisplacement(x, y, p, W, H), W, H)

\* A fractal effect that fills the interior pixels only, as a loop from 1
\* to size - 2 would: a buffer one pixel wide or high gets no pixel at all.
applyFractalDisplacementInterior(data, p, W, H) ==
    [k \in {j \in DOMAIN data :
                /\ (j \div 4) % W >= 1 /\ (j \div 4) % W < W - 1
                /\ (j \div 4) \div W >= 1 /\ (j \div 4) \div W < H - 1} |->
        LET pix == k \div 4
            src == FractalSrc(pix % W, pix \div W, p, W, H)
        IN  CopyChannel(data, PixelIdx(src[1], src[2], W) + (k % 4))]

\* Lines 137-174: every channel of every pixel is copied from the source.
applyFractalDisplacement(data, p, W, H) ==
    [k \in DOMAIN data |->
        LET pix == k \div 4
            src == FractalSrc(pix % W, pix \div W, p, W, H)
        IN  CopyChannel(data, PixelIdx(src[1], src[2], W) + (k % 4))]

(***************************************************************************)
(* applyCellularAutomata, lines 180-239.                                   *)
(***************************************************************************)
\* Lines 191-193: gray = (0.299 R + 0.587 G + 0.114 B) / 255 > 0.5.  Of the
\* colours whose gray is exactly 0.5, the doubles place (218, 58, 248)
\* above it.
Alive(r, g, b) ==
    \/ 299 * r + 587 * g + 114 * b > 127500
    \/ << r, g, b >> = << 218, 58, 248 >>

\* Lines 189-194: the initial grid, one cell per pixel.
InitialGrid(data, W, H) ==
    [c \in 0 .. W * H - 1 |->
        IF Alive(data[4 * c], data[4 * c + 1], data[4 * c + 2]) THEN 1 ELSE 0]

\* Lines 204-211: the live cells among the eight neighbours of (x, y).
Neighbors(grid, x, y, W) ==
    LET at(dx, dy) == grid[(y + dy) * W + (x + dx)]
    IN  at(-1, -1) + at(0, -1) + at(1, -1) + at(-1, 0) + at(1, 0)
        + at(-1, 1) + at(0, 1) + at(1, 1)

\* Lines 214-218: the next value of a cell.
LifeRule(cell, neighbors) ==
    IF cell = 1
    THEN IF neighbors = 2 \/ neighbors = 3 THEN 1 ELSE 0
    ELSE IF neighbors = 3 THEN 1 ELSE 0

\* Lines 201-202: the cells the generation loop visits.
Interior(x, y, W, H) == x >= 1 /\ x < W - 1 /\ y >= 1 /\ y < H - 1

RECURSIVE InPlaceFrom(_, _, _, _)
\* Cells c .. W*H-1 updated one after the other in the grid itself.
InPlaceFrom(grid, c, W, H) ==
    IF c >= W * H THEN grid
    ELSE InPlaceFrom(
            IF Interior(c % W, c \div W, W, H)
            THEN [grid EXCEPT ![c] = LifeRule(grid[c],
                                              Neighbors(grid, c % W, c \div W, W))]
            ELSE grid,
            c + 1, W, H)

\* A generation that writes every new value into the grid it counts the
\* neighbours in, row by row.
GenerationInPlace(grid, W, H) == InPlaceFrom(grid, 0, W, H)

\* A generation whose loops start at 0 and end at the last row and column:
\* the rule is applied to the edge cells too, cells outside counting as 0.
GenerationWithEdges(grid, W, H) ==
    [c \in DOMAIN grid |->
        LET x == c % W
            y == c \div W
            at(dx, dy) ==
                IF x + dx >= 0 /\ x + dx < W /\ y + dy >= 0 /\ y + dy < H
                THEN grid[(y + dy) * W + (x + dx)] ELSE 0
        IN  LifeRule(grid[c],
                     at(-1, -1) + at(0, -1) + at(1, -1) + at(-1, 0) + at(1, 0)
                     + at(-1, 1) + at(0, 1) + at(1, 1))]

\* Lines 199-222: one generation, computed from grid into a copy of it.
Generation(grid, W, H) ==
    [c \in DOMAIN grid |->
        IF Interior(c % W, c \div W, W, H)
        THEN LifeRule(grid[c], Neighbors(grid, c % W, c \div W, W))
        ELSE grid[c]]

RECURSIVE Evolve(_, _, _, _)
\* Lines 198-223: n generations.
Evolve(grid, n, W, H) ==
    IF n <= 0 THEN grid ELSE Evolve(Generation(grid, W, H), n - 1, W, H)

\* The pairs << data[idx], intensity >>, intensity in 0..100, whose product
\* data[idx] * (1 - intensity / 100) is exactly halfway between two integers
\* while the doubles of lines 228-232 give a product just below it:
\* 1 - 0.9 is 0.09999999999999998, and 255 times it is 25.499999999999996.
DarkenBelowHalf ==
        ({250} \X {7})
    \cup ({45, 85, 165, 175} \X {30})
    \cup ({150} \X {31})
    \cup ({150, 250} \X {33})
    \cup ({25, 75, 125, 175, 225} \X {34})
    \cup ({125, 225} \X {54})
    \cup ({30, 50, 70, 90, 110, 130, 170, 190, 210, 230, 250} \X {55})
    \cup ({90, 170} \X {65})
    \cup ({75, 125, 175} \X {66})
    \cup ({50, 150, 250} \X {67})
    \cup ({250} \X {77})
    \cup ({25, 75, 125, 175, 225} \X {78})
    \cup ({50, 150, 250} \X {79})
    \cup ({50, 150, 250} \X {81})
    \cup ({50, 150, 250} \X {89})
    \cup ({5, 15, 25, 35, 45, 55, 65, 75, 85, 95, 105, 115, 125, 135, 145,
          155, 165, 175, 185, 195, 205, 215, 225, 235, 245, 255} \X {90})
    \cup ({50, 150, 250} \X {91})
    \cup ({50, 150, 250} \X {93})

\* Lines 230-234: Math.round(data[idx] * (1 - cellValue * intensity / 100)),
\* stored into the Uint8ClampedArray.
Darken(value, cellValue, intensity) ==
    LET exact == MathRound(value * (100 - cellValue * intensity), 100)
    IN  ToUint8Clamped(IF << value, cellValue * intensity >> \in DarkenBelowHalf
                       THEN exact - 1 ELSE exact, 1)

\* A recolouring that darkens all four channels of a pixel.
RecolorAllChannels(data, grid, intensity) ==
    [k \in DOMAIN data |-> Darken(data[k], grid[k \div 4], intensity)]

\* A recolouring that builds its result with one element per grid cell.
RecolorPerCell(data, grid, intensity) ==
    [c \in DOMAIN grid |-> Darken(data[4 * c], grid[c], intensity)]

\* Lines 226-235: the recolouring; alpha keeps the copied value.
Recolor(data, grid, intensity) ==
    [k \in DOMAIN data |->
        IF k % 4 = 3 THEN data[k]
        ELSE Darken(data[k], grid[k \div 4], intensity)]

\* The pixels applyCellularAutomata computes (newData at line 237).
applyCellularAutomata(data, p, W, H) ==
    Recolor(data, Evolve(InitialGrid(data, W, H), p.iterations, W, H), p.intensity)

(***************************************************************************)
(* applyWaveDistortion, lines 241-281.                                     *)
(***************************************************************************)
\* Lines 260-264: one harmonic, Math.sin((c * freq) / size) * amp or, with
\* quarter == 1, Math.cos of it; freq = scale * 0.1 * (i + 1) and
\* amp = intensity * 0.1 / (i + 1).  Fixed point.
WaveTerm(c, size, i, p, quarter) ==
    LET arg == (c * p.scale * (i + 1) * FP) \div (10 * size)
        wave == IF quarter = 1 THEN CosFP(arg) ELSE SinFP(arg)
    IN  (wave * p.intensity) \div (10 * (i + 1))

RECURSIVE WaveSum(_, _, _, _, _)
\* Lines 259-265: the sum of the harmonics i .. iterations-1.
WaveSum(c, size, i, p, quarter) ==
    IF i >= p.iterations THEN 0
    ELSE WaveTerm(c, size, i, p, quarter) + WaveSum(c, size, i + 1, p, quarter)

\* displaceX of a pixel in row y, fixed point.
WaveDisplaceX(y, p, H) == WaveSum(y, H, 0, p, 0)

\* displaceY of a pixel in column x, fixed point.
WaveDisplaceY(x, p, W) == WaveSum(x, W, 0, p, 1)

\* Lines 267-268: Math.floor((c + displace + size) % size), displace in
\* fixed point: the real-valued remainder has the sign of the dividend.
WaveWrap(c, displace, size) ==
    MathFloor(JsMod((c + size) * FP + displace, size * FP), FP)

\* The source coordinate read for destination (x, y).
WaveSrc(x, y, p, W, H) ==
    << WaveWrap(x, WaveDisplaceX(y, p, H), W),
       WaveWrap(y, WaveDisplaceY(x, p, W), H) >>

\* Lines 254-277: every channel of every pixel is copied from the source.
applyWaveDistortion(data, p, W, H) ==
    [k \in DOMAIN data |->
        LET pix == k \div 4
            src == WaveSrc(pix % W, pix \div W, p, W, H)
        IN  CopyChannel(data, PixelIdx(src[1], src[2], W) + (k % 4))]

(***************************************************************************)
(* applyPerlinNoiseGlitch, lines 283-345.                                  *)
(***************************************************************************)
RECURSIVE Frequency(_)
\* frequency at octave i: 1, doubled after every octave (lines 300, 314).
Frequency(i) == IF i <= 0 THEN 1 ELSE 2 * Frequency(i - 1)

\* Lines 304-305, 309-310: sample * Math.PI for coordinate c at octave i,
\* sample = (c * frequency * scale * 0.01) / size; fixed-point radians,
\* less the whole turns.  Math.PI lies below pi, so the angle of a sample
\* other than 0 lies below its exact value: one unit here.
NoiseAngle(c, size, i, scale) ==
    LET m == c * Frequency(i) * scale
        d == 100 * size
    IN  (HalfTurn * (m % (2 * d))) \div d - (IF m > 0 THEN 1 ELSE 0)

RECURSIVE NoiseSum(_, _, _, _, _, _, _)
\* Lines 303-315: << noiseValue, maxValue >> after octaves i .. iterations-1,
\* amplitude being the amplitude of octave i; an octave whose amplitude is
\* below the fixed-point resolution adds nothing.
NoiseSum(x, y, i, amplitude, p, W, H) ==
    IF i >= p.iterations THEN << 0, 0 >>
    ELSE LET rest == NoiseSum(x, y, i + 1, amplitude \div 2, p, W, H)
             term == IF amplitude = 0 THEN 0
                     ELSE MulFP(MulFP(amplitude,
                                      SinFP(NoiseAngle(x, W, i, p.scale))),
                                CosFP(NoiseAngle(y, H, i, p.scale)))
         IN  << term + rest[1], amplitude + rest[2] >>

\* Line 317: (noiseValue / maxValue + 1) / 2, fixed point.
NoiseValue(x, y, p, W, H) ==
    LET s == NoiseSum(x, y, 0, FP, p, W, H)
    IN  ((s[1] * FP) \div s[2] + FP) \div 2

\* Line 318: Math.floor(noiseValue * params.intensity).
NoiseDisplacementOf(noiseValue, intensity) == MathFloor(noiseValue * intensity, FP)

\* The displacement of pixel (x, y).
NoiseDisplacement(x, y, p, W, H) ==
    NoiseDisplacementOf(NoiseValue(x, y, p, W, H), p.intensity)

\* Lines 320-321: the source coordinate read for destination (x, y).
NoiseSrc(x, y, p, W, H) ==
    DiagonalWrap(x, y, NoiseDisplacement(x, y, p, W, H), W, H)

\* Line 326: Math.floor(noiseValue * 255).
ColorShift(noiseValue) == MathFloor(noiseValue * 255, FP)

\* A noise effect that raises blue by the shift it should lower it by.
NoiseChannelBlueRaised(ch, v, colorShift, intensity) ==
    IF ch = 0 THEN ToUint8Clamped(Min(25500, 100 * v + colorShift * intensity), 100)
    ELSE IF ch = 1 THEN ToUint8Clamped(Min(51000, 200 * v + colorShift * intensity), 200)
    ELSE IF ch = 2 THEN ToUint8Clamped(Min(51000, 200 * v + colorShift * intensity), 200)
    ELSE v

\* Lines 327-339: the value stored in channel ch of the destination, given
\* the sampled channel value v: Math.min(255, v + shift) stored clamped.
NoiseChannel(ch, v, colorShift, intensity) ==
    IF ch = 0 THEN ToUint8Clamped(Min(25500, 100 * v + colorShift * intensity), 100)
    ELSE IF ch = 1 THEN ToUint8Clamped(Min(51000, 200 * v + colorShift * intensity), 200)
    ELSE IF ch = 2 THEN ToUint8Clamped(Min(51000, 200 * v - colorShift * intensity), 200)
    ELSE v

\* Lines 296-341: an undefined sample makes the sum NaN, stored as 0.
applyPerlinNoiseGlitch(data, p, W, H) ==
    [k \in DOMAIN data |->
        LET pix == k \div 4
            src == NoiseSrc(pix % W, pix \div W, p, W, H)
            srcIdx == PixelIdx(src[1], src[2], W) + (k % 4)
        IN  IF InBuffer(data, srcIdx)
            THEN NoiseChannel(k % 4, data[srcIdx],
                              ColorShift(NoiseValue(pix % W, pix \div W, p, W, H)),
                              p.intensity)
            ELSE 0]

(***************************************************************************)
(* EffectParams and GlitchProcessor.process, lines 47-74.                  *)
(***************************************************************************)
EffectTypes == {"chromatic", "fractal", "cellular", "wave", "noise"}

\* The ranges the editor's sliders give the fields (Home.tsx lines 353-388).
InRange(p) ==
    /\ p.intensity >= 0 /\ p.intensity <= 100
    /\ p.scale >= 10 /\ p.scale <= 200
    /\ p.iterations >= 1 /\ p.iterations <= 64

\* An effect whose result also depends on how many calls came before, as
\* one drawing from a random stream seeded once per instance would.
EffectSeededPerInstance(data, p, W, H) ==
    LET q == [p EXCEPT !.intensity = (p.intensity + p.seed * calls) % 101]
    IN  CASE q.effectType = "chromatic" -> applyChromaticAberration(data, q, W, H)
          [] q.effectType = "fractal" -> applyFractalDisplacement(data, q, W, H)
          [] q.effectType = "cellular" -> applyCellularAutomata(data, q, W, H)
          [] q.effectType = "wave" -> applyWaveDistortion(data, q, W, H)
          [] q.effectType = "noise" -> applyPerlinNoiseGlitch(data, q, W, H)
          [] OTHER -> data

\* Lines 55-71: the switch on params.effectType; the value is the pixel
\* array the selected effect computes from data.
Effect(data, p, W, H) ==
    CASE p.effectType = "chromatic" -> applyChromaticAberration(data, p, W, H)
      [] p.effectType = "fractal" -> applyFractalDisplacement(data, p, W, H)
      [] p.effectType = "cellular" -> applyCellularAutomata(data, p, W, H)
      [] p.effectType = "wave" -> applyWaveDistortion(data, p, W, H)
      [] p.effectType = "noise" -> applyPerlinNoiseGlitch(data, p, W, H)
      [] OTHER -> data

\* The ImageData objects alive during a process() call: the constructor's
\* snapshot and the copy getImageData returns at line 48.  A heap maps the
\* objects to their pixel arrays.
Snapshot == "this.imageData"

Working == "workingData"

\* An effect that leaves its argument alone and returns a new ImageData.
RunEffectIntoCopy(heap, obj, p, W, H) ==
    [ heap |-> [o \in DOMAIN heap \cup {"newImageData"} |->
                   IF o = "newImageData" THEN Effect(heap[obj], p, W, H)
                   ELSE heap[o]],
      ret  |-> "newImageData" ]

\* The tail of every effect method ("imageData.data.set(newData); return
\* imageData", lines 119-120, 176-177, 237-238, 279-280, 343-344): the
\* result is written into the object passed in, and that object is returned.
RunEffect(heap, obj, p, W, H) ==
    [ heap |-> [heap EXCEPT ![obj] = Effect(heap[obj], p, W, H)],
      ret  |-> obj ]

\* The coordinates of all pixels of a W x H buffer.
Pixels(W, H) == (0 .. W - 1) \X (0 .. H - 1)

\* Whether (x, y) is a pixel of a W x H buffer.
InsideBuffer(c, W, H) == c[1] >= 0 /\ c[1] < W /\ c[2] >= 0 /\ c[2] < H

\* The source coordinate the displacement effects sample for (x, y).
SampledFor(x, y, p, W, H) ==
    CASE p.effectType = "fractal" -> FractalSrc(x, y, p, W, H)
      [] p.effectType = "wave" -> WaveSrc(x, y, p, W, H)
      [] p.effectType = "noise" -> NoiseSrc(x, y, p, W, H)
      [] OTHER -> << x, y >>

\* Every source coordinate the selected effect reads: the sampled pixel of
\* each destination (per iteration for the chromatic effect) and, for the
\* cellular effect, each pixel and the neighbours of the interior cells.
SampledCoords(p, W, H) ==
    CASE p.effectType = "chromatic" ->
            {ChromaticSrc(c[1], c[2], i, p, W, H) :
                c \in Pixels(W, H), i \in 0 .. p.iterations - 1}
      [] p.effectType = "cellular" ->
            Pixels(W, H) \cup
            {<<c[1] + d[1], c[2] + d[2]>> :
                c \in {e \in Pixels(W, H) : Interior(e[1], e[2], W, H)},
                d \in (-1 .. 1) \X (-1 .. 1)}
      [] OTHER -> {SampledFor(c[1], c[2], p, W, H) : c \in Pixels(W, H)}

\* The numbers the selected effect divides by or takes a remainder by, other
\* than literals: iterations (lines 89-90, 161), the buffer's width and
\* height (lines 97-98, 139-140, 164-165, 261-263, 267-268, 304-310,
\* 320-321), i + 1 for each harmonic (lines 261-262) and maxValue (line 317).
Divisors(p, W, H) ==
    CASE p.effectType = "chromatic" -> {p.iterations, W, H}
      [] p.effectType = "fractal" -> {p.iterations, W, H}
      [] p.effectType = "wave" ->
            {W, H} \cup {i + 1 : i \in 0 .. p.iterations - 1}
      [] p.effectType = "noise" ->
            {W, H} \cup {NoiseSum(c[1], c[2], 0, FP, p, W, H)[2] :
                             c \in Pixels(W, H)}
      [] OTHER -> {}

NoCall == [done |-> FALSE]

NoBuffer == [present |-> FALSE]

\* A call record: what process(p) read, ran and wrote.
CallRecord(p, heap, r, W, H) ==
    [ done |-> TRUE, params |-> p, W |-> W, H |-> H,
      arg |-> Working, ret |-> r.ret,
      heapBefore |-> heap, heapAfter |-> r.heap,
      input |-> heap[Working], output |-> r.heap[r.ret] ]

(***************************************************************************)
(* The actions of a GlitchProcessor.                                       *)
(***************************************************************************)
\* ctx.drawImage(sourceImage, 0, 0, w, h), line 43: the pixels are copied
\* when the size is unchanged; the pixels of a resampled image are not
\* modelled (the empty array stands for them).
DrawImage(data, w0, h0, w, h) == IF w = w0 /\ h = h0 THEN data ELSE << >>

\* new GlitchProcessor(sourceImage, canvas), lines 17-45, for an image of
\* w0 x h0 pixels and the scaled size d: the fields it leaves behind.
Constructed(data, w0, h0, d) ==
    LET drawn == DrawImage(data, w0, h0, d[1], d[2])
    IN  [ width |-> d[1], height |-> d[2],
          canvasData |-> drawn,
          status |-> IF GetImageDataThrows(d[1], d[2]) THEN "threw" ELSE "ready",
          error |-> IF GetImageDataThrows(d[1], d[2])
                    THEN "IndexSizeError" ELSE "none",
          imageData |-> IF GetImageDataThrows(d[1], d[2])
                        THEN NoBuffer
                        ELSE [present |-> TRUE, width |-> d[1],
                              height |-> d[2], data |-> drawn] ]

\* processor.process(p), lines 47-74: getImageData, the effect,
\* putImageData; snapshot is this.imageData, bitmap the canvas's pixels.
Processed(snapshot, bitmap, p, W, H) ==
    LET heap == [o \in {Snapshot, Working} |->
                    IF o = Snapshot THEN snapshot.data ELSE bitmap]
    IN  CHOOSE after \in
            { [ canvasData |-> r.heap[r.ret],
                imageData |-> [snapshot EXCEPT !.data = r.heap[Snapshot]],
                call |-> CallRecord(p, heap, r, W, H) ] :
              r \in {RunEffect(heap, Working, p, W, H)} } : TRUE

Construct ==
    \E d \in ScaledDims(srcW, srcH) :
        LET c == Constructed(srcData, srcW, srcH, d)
        IN  /\ width' = c.width
            /\ height' = c.height
            /\ canvasW' = c.width
            /\ canvasH' = c.height
            /\ canvasData' = c.canvasData
            /\ calls' = 0
            /\ status' = c.status
            /\ error' = c.error
            /\ imageData' = c.imageData
            /\ UNCHANGED << srcW, srcH, srcData, lastCall, prevCall >>
            /\ UNCHANGED pageVars

Process(p) ==
    /\ status = "ready"
    /\ \E a \in {Processed(imageData, canvasData, p, width, height)} :
           /\ canvasData' = a.canvasData
           /\ imageData' = a.imageData
           /\ lastCall' = a.call
    /\ prevCall' = lastCall
    /\ calls' = calls + 1
    /\ UNCHANGED << srcW, srcH, srcData, width, height, canvasW, canvasH,
                    status, error >>
    /\ UNCHANGED pageVars

(***************************************************************************)
(* Inputs.                                                                 *)
(***************************************************************************)
\* Source sizes of the load harness: the sizes around 0 and around the two
\* limits, a size whose scaled value is a tie, and the multiples of 100.
SrcSizes ==
    {0, 1, 2, 82} \cup {maxHeight - 1, maxHeight, maxHeight + 1}
    \cup {maxWidth - 1, maxWidth, maxWidth + 1}
    \cup {100 * k : k \in 1 .. MaxHundreds}

\* Test image k of size W x H: image 0 is black and opaque; in the others
\* the pixels differ from each other in every channel, alpha included.
TestImage(k, W, H) ==
    [i \in 0 .. 4 * W * H - 1 |->
        LET pix == i \div 4
        IN  CASE i % 4 = 0 -> (k * (53 + 97 * pix)) % 256
              [] i % 4 = 1 -> (k * (101 + 61 * pix)) % 256
              [] i % 4 = 2 -> (k * (17 + 139 * pix)) % 256
              [] OTHER -> (255 - k * (7 + 29 * pix)) % 256]

\* The params process() is called with in the effect harness: in-range
\* values and, since process() takes any numbers, out-of-range ones.
Intensities == {0, 100, 150}

Scales == {5, 10, 200}

HarnessParams ==
    [ effectType : EffectTypes, intensity : Intensities, scale : Scales,
      iterations : 1 .. MaxIter, seed : {42} ]

\* The params of the call sequences.
SequenceParams ==
    [ effectType : EffectTypes, intensity : {0, 100}, scale : {200},
      iterations : {1}, seed : {42} ]

(***************************************************************************)
(* The Home page (client/src/pages/Home.tsx).                              *)
(*                                                                         *)
(* A handler's state updates, the render that follows and the effect hook  *)
(* of that render are one action: React runs the hook before it handles    *)
(* the next event.  process() has no await in its body, so processImage    *)
(* runs to its end inside the hook.                                        *)
(***************************************************************************)
DEFAULT_PARAMS ==
    [ effectType |-> "chromatic", intensity |-> 50, scale |-> 50,
      iterations |-> 8, seed |-> 42 ]

PRESETS ==
    [ name \in { "Chromatic Rift", "Mandelbrot Decay", "Cellular Bloom",
                 "Harmonic Distortion", "Perlin Corruption" } |->
        CASE name = "Chromatic Rift" ->
                 [ effectType |-> "chromatic", intensity |-> 85, scale |-> 60,
                   iterations |-> 16, seed |-> 42 ]
          [] name = "Mandelbrot Decay" ->
                 [ effectType |-> "fractal", intensity |-> 75, scale |-> 120,
                   iterations |-> 32, seed |-> 123 ]
          [] name = "Cellular Bloom" ->
                 [ effectType |-> "cellular", intensity |-> 90, scale |-> 50,
                   iterations |-> 12, seed |-> 456 ]
          [] name = "Harmonic Distortion" ->
                 [ effectType |-> "wave", intensity |-> 80, scale |-> 40,
                   iterations |-> 20, seed |-> 789 ]
          [] OTHER ->
                 [ effectType |-> "noise", intensity |-> 70, scale |-> 100,
                   iterations |-> 8, seed |-> 999 ] ]

NoImage == [present |-> FALSE]

NoExport == [clicked |-> FALSE, done |-> FALSE]

Idle == [stage |-> "idle"]

\* The image file f decodes to: a 2 x 2 test image.
FileImage(f) ==
    [ present |-> TRUE, file |-> f, width |-> 2, height |-> 2,
      data |-> TestImage(f, 2, 2) ]

\* The processor a run of processImage works with: a new one, line 108.
\* old is the processor of the run before.
ReusedProcessor(data, w0, h0, d, old) ==
    IF old.status = "ready" /\ old.width = d[1] /\ old.height = d[2]
    THEN old
    ELSE Constructed(data, w0, h0, d)

ProcessorOfRun(data, w0, h0, d, old) == Constructed(data, w0, h0, d)

\* processImage(), lines 103-117, on the mounted canvas: the constructor,
\* then process(params); an exception of either is caught (line 111).
processImage(img, p) ==
    \E d \in ScaledDims(img.width, img.height) :
        LET old == [ width |-> width, height |-> height,
                     canvasData |-> canvasData, status |-> status,
                     error |-> error, imageData |-> imageData ]
            c == ProcessorOfRun(img.data, img.width, img.height, d, old)
        IN  /\ srcW' = img.width
            /\ srcH' = img.height
            /\ srcData' = img.data
            /\ width' = c.width
            /\ height' = c.height
            /\ canvasW' = c.width
            /\ canvasH' = c.height
            /\ status' = c.status
            /\ error' = c.error
            /\ IF c.status = "threw"
               THEN /\ canvasData' = c.canvasData
                    /\ imageData' = c.imageData
                    /\ calls' = 0
                    /\ lastCall' = NoCall
                    /\ prevCall' = NoCall
               ELSE \E a \in {Processed(c.imageData, c.canvasData, p,
                                          c.width, c.height)} :
                        /\ canvasData' = a.canvasData
                        /\ imageData' = a.imageData
                        /\ calls' = 1
                        /\ lastCall' = a.call
                        /\ prevCall' = NoCall

\* The render after a state update and its effect hook, lines 119-123 and
\* 146-463: the canvas is part of the editor view only (line 286), so
\* canvasRef.current is null on the other two; the hook runs processImage
\* when the view is the editor's.  st, img, p are the new state.
Render(st, img, p) ==
    /\ step' = st
    /\ sourceImage' = img
    /\ params' = p
    /\ IF st = "editor" /\ img.present
       THEN /\ canvasRef' = "canvas"
            /\ processImage(img, p)
       ELSE /\ canvasRef' = "null"
            /\ UNCHANGED processorVars

\* handleImageUpload(file), lines 79-91, from the file input (line 206) or
\* a drop (line 182) on the landing view: the FileReader starts.
Upload(u, f) ==
    /\ step = "landing"
    /\ loads[u].stage \in {"idle", "done"}
    /\ loads' = [loads EXCEPT ![u] = [stage |-> "reading", file |-> f]]
    /\ UNCHANGED << processorVars, step, sourceImage, params, exportFormat,
                    canvasRef, presetTable, paramsRef, exported >>

\* reader.onload, lines 81-89: the Image starts decoding the data URL.
ReaderLoaded(u) ==
    /\ loads[u].stage = "reading"
    /\ loads' = [loads EXCEPT ![u].stage = "decoding"]
    /\ UNCHANGED << processorVars, step, sourceImage, params, exportFormat,
                    canvasRef, presetTable, paramsRef, exported >>

\* img.onload, lines 83-87; the upload is done.
ImageLoaded(u) ==
    /\ loads[u].stage = "decoding"
    /\ loads' = [loads EXCEPT ![u].stage = "done"]
    /\ Render("editor", FileImage(loads[u].file), DEFAULT_PARAMS)
    /\ paramsRef' = "DEFAULT_PARAMS"
    /\ UNCHANGED << exportFormat, presetTable, exported >>

\* An ABORT button that drops the image and leaves the step as it is.
AbortImageOnly ==
    /\ step = "editor"
    /\ Render("editor", NoImage, params)
    /\ UNCHANGED << exportFormat, loads, presetTable, paramsRef, exported >>

\* The ABORT button, lines 263-271.
Abort ==
    /\ step = "editor"
    /\ Render("landing", NoImage, params)
    /\ UNCHANGED << exportFormat, loads, presetTable, paramsRef, exported >>

\* The EXPORT button of the editor, line 274.
OpenExport ==
    /\ step = "editor"
    /\ Render("export", sourceImage, params)
    /\ UNCHANGED << exportFormat, loads, presetTable, paramsRef, exported >>

\* CANCEL or closing the dialog, lines 419 and 453.
CancelExport ==
    /\ step = "export"
    /\ Render("editor", sourceImage, params)
    /\ UNCHANGED << exportFormat, loads, presetTable, paramsRef, exported >>

\* The format select of the dialog, line 432.
SetExportFormat(fmt) ==
    /\ step = "export"
    /\ exportFormat' = fmt
    /\ UNCHANGED << processorVars, step, sourceImage, params, canvasRef,
                    loads, presetTable, paramsRef, exported >>

\* handleExport(), lines 132-144, from the DOWNLOAD button (line 446).
handleExport ==
    /\ step = "export"
    /\ IF canvasRef = "null"
       THEN /\ exported' = [ clicked |-> TRUE, done |-> FALSE,
                             stepAfter |-> step ]
            /\ UNCHANGED << processorVars, step, sourceImage, params,
                            canvasRef >>
       ELSE /\ exported' = [ clicked |-> TRUE, done |-> TRUE,
                             format |-> exportFormat,
                             pixels |-> canvasData,
                             processed |-> IF lastCall.done
                                           THEN lastCall.output ELSE << >>,
                             stepAfter |-> "landing" ]
            /\ Render("landing", sourceImage, params)
    /\ UNCHANGED << exportFormat, loads, presetTable, paramsRef >>

\* applyPreset(presetName), lines 125-130, from a preset button (line 304).
applyPreset(presetName) ==
    /\ step = "editor"
    /\ IF presetName \in DOMAIN presetTable
       THEN /\ Render(step, sourceImage, presetTable[presetName])
            /\ paramsRef' = presetName
       ELSE UNCHANGED << processorVars, step, sourceImage, params, canvasRef,
                         paramsRef >>
    /\ UNCHANGED << exportFormat, loads, presetTable, exported >>

\* A control that assigned the field of the params object it was given.
AssignParams(table, ref, cur, field, v) ==
    [ params |-> [cur EXCEPT ![field] = v],
      ref |-> ref,
      table |-> IF ref \in DOMAIN table
                THEN [table EXCEPT ![ref] = [cur EXCEPT ![field] = v]]
                ELSE table ]

\* { ...params, field: v }, lines 324-327, 351, 368 and 385: a new object;
\* the object params was, a PRESETS entry perhaps, is left as it is.
SpreadParams(table, ref, cur, field, v) ==
    [ params |-> [cur EXCEPT ![field] = v],
      ref |-> "spread",
      table |-> table ]

\* The effect type select, lines 323-328.
SetEffectType(t) ==
    /\ step = "editor"
    /\ \E s \in {SpreadParams(presetTable, paramsRef, params, "effectType", t)} :
           /\ Render(step, sourceImage, s.params)
           /\ presetTable' = s.table
           /\ paramsRef' = s.ref
    /\ UNCHANGED << exportFormat, loads, exported >>

\* The three sliders, lines 348-391.
SetIntensity(v) ==
    /\ step = "editor"
    /\ \E s \in {SpreadParams(presetTable, paramsRef, params, "intensity", v)} :
           /\ Render(step, sourceImage, s.params)
           /\ presetTable' = s.table
           /\ paramsRef' = s.ref
    /\ UNCHANGED << exportFormat, loads, exported >>

SetScale(v) ==
    /\ step = "editor"
    /\ \E s \in {SpreadParams(presetTable, paramsRef, params, "scale", v)} :
           /\ Render(step, sourceImage, s.params)
           /\ presetTable' = s.table
           /\ paramsRef' = s.ref
    /\ UNCHANGED << exportFormat, loads, exported >>

SetIterations(v) ==
    /\ step = "editor"
    /\ \E s \in {SpreadParams(presetTable, paramsRef, params, "iterations", v)} :
           /\ Render(step, sourceImage, s.params)
           /\ presetTable' = s.table
           /\ paramsRef' = s.ref
    /\ UNCHANGED << exportFormat, loads, exported >>

\* The RESET button, lines 394-400.
Reset ==
    /\ step = "editor"
    /\ Render(step, sourceImage, DEFAULT_PARAMS)
    /\ paramsRef' = "DEFAULT_PARAMS"
    /\ UNCHANGED << exportFormat, loads, presetTable, exported >>

\* The state of the page when it is mounted, lines 71-77.
InitPage ==
    /\ step = "landing"
    /\ sourceImage = NoImage
    /\ params = DEFAULT_PARAMS
    /\ exportFormat = "png"
    /\ canvasRef = "null"
    /\ loads = [u \in 1 .. MaxUploads |-> Idle]
    /\ presetTable = PRESETS
    /\ paramsRef = "DEFAULT_PARAMS"
    /\ exported = NoExport

\* The values the sliders are moved to: the ends of their ranges.
SliderIntensities == {100}

SliderScales == {10}

SliderIterations == {1}

(***************************************************************************)
(* Specifications.                                                         *)
(***************************************************************************)
InitCommon ==
    /\ width = 0 /\ height = 0
    /\ canvasW = 300 /\ canvasH = 150
    /\ canvasData = << >>
    /\ imageData = NoBuffer
    /\ status = "new" /\ error = "none"
    /\ calls = 0
    /\ lastCall = NoCall /\ prevCall = NoCall

\* The harnesses below drive a GlitchProcessor directly; the page stays on
\* its landing step.
InitHarness ==
    /\ InitCommon
    /\ InitPage

\* The load harness: a source image of any size, then the constructor.
InitLoad ==
    /\ srcW \in SrcSizes
    /\ srcH \in SrcSizes
    /\ srcData = << >>
    /\ InitHarness

NextLoad == status = "new" /\ Construct

SpecLoad == InitLoad /\ [][NextLoad]_vars

\* The effect harness: a small image, the constructor, one process() call.
InitEffect ==
    /\ srcW \in 1 .. MaxW
    /\ srcH \in 1 .. MaxH
    /\ \E k \in 0 .. MaxImage : srcData = TestImage(k, srcW, srcH)
    /\ InitHarness

NextEffect ==
    \/ status = "new" /\ Construct
    \/ \E p \in HarnessParams : calls = 0 /\ Process(p)

SpecEffect == InitEffect /\ [][NextEffect]_vars

\* The upper end of the intensity slider (Home.tsx line 354).
IntensityMax == 100

\* The chromatic harness: one pixel, the constructor, one call of the
\* chromatic effect with any intensity the slider gives and 1..MaxOffsetIter
\* iterations.
ChromaticParams ==
    [ effectType : {"chromatic"}, intensity : 0 .. IntensityMax,
      scale : {50}, iterations : 1 .. MaxOffsetIter, seed : {42} ]

InitChromatic ==
    /\ srcW = 1
    /\ srcH = 1
    /\ srcData = TestImage(1, 1, 1)
    /\ InitHarness

NextChromatic ==
    \/ status = "new" /\ Construct
    \/ \E p \in ChromaticParams : calls = 0 /\ Process(p)

SpecChromatic == InitChromatic /\ [][NextChromatic]_vars

\* Call sequences on the last test image at the largest size: the constructor at any
\* time (the editor makes a new GlitchProcessor over the same canvas for
\* every run), process() up to MaxCalls times on one instance.
InitSequence ==
    /\ srcW = MaxW
    /\ srcH = MaxH
    /\ srcData = TestImage(MaxImage, srcW, srcH)
    /\ InitHarness

NextSequence ==
    \/ Construct
    \/ \E p \in SequenceParams : calls < MaxCalls /\ Process(p)

SpecSequence == InitSequence /\ [][NextSequence]_vars

\* The page with one upload at a time, of any of the files 1..MaxFile,
\* and every control of the three views.
NextEditor ==
    \/ \E f \in 1 .. MaxFile : Upload(1, f)
    \/ ReaderLoaded(1)
    \/ ImageLoaded(1)
    \/ Abort
    \/ OpenExport
    \/ CancelExport
    \/ \E fmt \in {"png", "jpeg"} : SetExportFormat(fmt)
    \/ handleExport
    \/ \E name \in DOMAIN PRESETS : applyPreset(name)
    \/ \E t \in EffectTypes : SetEffectType(t)
    \/ \E v \in SliderIntensities : SetIntensity(v)
    \/ \E v \in SliderScales : SetScale(v)
    \/ \E v \in SliderIterations : SetIterations(v)
    \/ Reset

\* No GlitchProcessor exists before the first run.
InitEditor ==
    /\ srcW = 0
    /\ srcH = 0
    /\ srcData = << >>
    /\ InitCommon
    /\ InitPage

SpecEditor == InitEditor /\ [][NextEditor]_vars

\* The page with MaxUploads uploads started one after the other, each of
\* any of the files 1..MaxUploads, their FileReaders and Images finishing in
\* any order, and the buttons that change the step.
NextUploads ==
    \/ \E u \in 1 .. MaxUploads, f \in 1 .. MaxUploads :
           /\ loads[u].stage = "idle"
           /\ \A v \in 1 .. u - 1 : loads[v].stage # "idle"
           /\ Upload(u, f)
    \/ \E u \in 1 .. MaxUploads : ReaderLoaded(u)
    \/ \E u \in 1 .. MaxUploads : ImageLoaded(u)
    \/ Abort
    \/ OpenExport
    \/ CancelExport
    \/ handleExport

SpecUploads == InitEditor /\ [][NextUploads]_vars

\* The cellular harness: images with interior cells, the constructor, one
\* run of the cellular effect.
CellularParams ==
    [ effectType : {"cellular"}, intensity : {50, 100}, scale : {50},
      iterations : 1 .. MaxIter, seed : {42} ]

InitCellular ==
    /\ srcW \in 3 .. MaxGrid
    /\ srcH \in 3 .. MaxGrid
    /\ \E k \in 1 .. MaxGridImage : srcData = TestImage(k, srcW, srcH)
    /\ InitHarness

NextCellular ==
    \/ status = "new" /\ Construct
    \/ \E p \in CellularParams : calls = 0 /\ Process(p)

SpecCellular == InitCellular /\ [][NextCellular]_vars

\* The fractal harness: a small image, the constructor, one run of the
\* fractal effect; the orbits end at index 0, at 3, or at the last index.
FractalParams ==
    [ effectType : {"fractal"}, intensity : {0, 1, 55, 100},
      scale : {10, 100, 200}, iterations : {1, 11} \cup (1 .. MaxIter),
      seed : {42} ]

NextFractal ==
    \/ status = "new" /\ Construct
    \/ \E p \in FractalParams : calls = 0 /\ Process(p)

SpecFractal == InitEffect /\ [][NextFractal]_vars

\* The preset harness: a small image, the constructor, one process() call
\* with the params of a preset, as they are, with the intensity slider at
\* its maximum or with the iterations slider at 1..MaxIter, or with the
\* default params.
PresetParams ==
    {PRESETS[name] : name \in DOMAIN PRESETS}
    \cup {[PRESETS[name] EXCEPT !.intensity = 100] : name \in DOMAIN PRESETS}
    \cup {[PRESETS[name] EXCEPT !.iterations = n] :
              name \in DOMAIN PRESETS, n \in 1 .. MaxIter}
    \cup {DEFAULT_PARAMS}

NextPreset ==
    \/ status = "new" /\ Construct
    \/ \E p \in PresetParams : calls = 0 /\ Process(p)

SpecPreset == InitEffect /\ [][NextPreset]_vars

(***************************************************************************)
(* The claims.                                                             *)
(***************************************************************************)
\* The spec's dispatcher clamp: intensity to [0,100], scale to [10,200],
\* iterations to [1,64].
Clamped(p) ==
    LET clamp(v, lo, hi) == IF v < lo THEN lo ELSE IF v > hi THEN hi ELSE v
    IN  [p EXCEPT !.intensity = clamp(p.intensity, 0, 100),
                  !.scale = clamp(p.scale, 10, 200),
                  !.iterations = clamp(p.iterations, 1, 64)]

\* The last call ran one of the given effects with in-range params.
LastRan(effects) ==
    /\ lastCall.done
    /\ lastCall.params.effectType \in effects
    /\ InRange(lastCall.params)

\* C1: after load, for every source size (w, h) with w >= 1 and h >= 1, the
\* working buffer has width <= 800 and height <= 600.
C1_BufferWithinBounds ==
    (status = "ready" /\ srcW >= 1 /\ srcH >= 1)
        => (width <= maxWidth /\ height <= maxHeight)

\* C2: the dispatcher clamps out-of-range parameters before running an
\* effect: process(p) gives the output of the effect run with p clamped.
C2_DispatcherClamps ==
    lastCall.done =>
        lastCall.output =
            Effect(lastCall.input, Clamped(lastCall.params), lastCall.W, lastCall.H)

\* C3: for every effect and every in-range params, every source coordinate
\* the effect reads lies in [0, W) x [0, H).
C3_SamplesInsideBuffer ==
    LastRan(EffectTypes) =>
        \A c \in SampledCoords(lastCall.params, lastCall.W, lastCall.H) :
            InsideBuffer(c, lastCall.W, lastCall.H)

C5_InputUntouched ==
    lastCall.done =>
        /\ lastCall.heapAfter[lastCall.arg] = lastCall.heapBefore[lastCall.arg]
        /\ lastCall.ret # lastCall.arg

\* C5 as amended: an effect call returns the very object passed in, with
\* its pixel data overwritten by the result; it creates no other buffer
\* and leaves the constructor's snapshot unchanged.
C5_InPlace ==
    lastCall.done =>
        /\ lastCall.ret = lastCall.arg
        /\ DOMAIN lastCall.heapAfter = DOMAIN lastCall.heapBefore
        /\ lastCall.heapAfter[Snapshot] = lastCall.heapBefore[Snapshot]
        /\ lastCall.heapAfter[lastCall.arg] = canvasData

\* Witness of C5: a call that changed the pixels of the buffer passed in.
C5_Witness ==
    /\ lastCall.done
    /\ lastCall.heapAfter[lastCall.arg] # lastCall.heapBefore[lastCall.arg]

C8_ZeroIntensityIdentity ==
    (LastRan({"fractal", "wave", "noise"}) /\ lastCall.params.intensity = 0)
        => /\ lastCall.output = lastCall.input
           /\ \A c \in Pixels(lastCall.W, lastCall.H) :
                LET p == lastCall.params
                    W == lastCall.W
                    H == lastCall.H
                IN  /\ p.effectType = "fractal"
                        => FractalDisplacement(c[1], c[2], p, W, H) = 0
                    /\ p.effectType = "noise"
                        => NoiseDisplacement(c[1], c[2], p, W, H) = 0
                    /\ p.effectType = "wave"
                        => /\ WaveDisplaceX(c[2], p, H) = 0
                           /\ WaveDisplaceY(c[1], p, W) = 0

\* Witness of C8: the fractal effect ran with intensity 0 and more than one
\* iteration on a buffer whose pixels differ.
C8_Witness ==
    /\ LastRan({"fractal"}) /\ lastCall.params.intensity = 0
    /\ lastCall.params.iterations > 1
    /\ lastCall.W > 1 /\ lastCall.H > 1
    /\ lastCall.input[0] # lastCall.input[4]

\* C9: the chromatic and cellular effects never modify alpha: the output
\* alpha of every pixel equals its input alpha.
C9_AlphaKept ==
    LastRan({"chromatic", "cellular"}) =>
        \A k \in DOMAIN lastCall.input :
            k % 4 = 3 => lastCall.output[k] = lastCall.input[k]

\* Witness of C9: the cellular effect darkened a pixel that is not opaque.
C9_Witness ==
    /\ LastRan({"cellular"})
    /\ \E k \in DOMAIN lastCall.input :
        /\ k % 4 = 0
        /\ lastCall.output[k] # lastCall.input[k]
        /\ lastCall.input[k + 3] # 255

\* C10: for the fractal, wave and noise effects the output alpha of every
\* destination pixel equals the input alpha of the pixel sampled for it,
\* which is a pixel inside the buffer.
C10_AlphaFromSample ==
    LastRan({"fractal", "wave", "noise"}) =>
        \A c \in Pixels(lastCall.W, lastCall.H) :
            LET src == SampledFor(c[1], c[2], lastCall.params, lastCall.W, lastCall.H)
            IN  /\ InsideBuffer(src, lastCall.W, lastCall.H)
                /\ lastCall.output[PixelIdx(c[1], c[2], lastCall.W) + 3]
                     = CopyChannel(lastCall.input,
                                   PixelIdx(src[1], src[2], lastCall.W) + 3)

\* C6: whenever the editor is shown, its canvas holds the current effect,
\* with the current params, applied exactly once to the source image drawn
\* at the processor's size: the run before leaves nothing behind.
C6_NoAccumulation ==
    (step = "editor" /\ sourceImage.present) =>
        /\ canvasRef = "canvas"
        /\ status = "ready"
        /\ lastCall.done
        /\ lastCall.params = params
        /\ canvasData =
               Effect(DrawImage(sourceImage.data, sourceImage.width,
                                sourceImage.height, width, height),
                      params, width, height)

\* A later run of an editor session.  The session's first run is the one
\* of img.onload, with DEFAULT_PARAMS, and it changed the picture; the
\* params have changed since, and the canvas differs from the source and
\* from the first run's result, which a second pass over it would not give.
C6_Witness ==
    /\ step = "editor"
    /\ sourceImage.present
    /\ lastCall.done
    /\ lastCall.params = params
    /\ params # DEFAULT_PARAMS
    /\ Effect(sourceImage.data, DEFAULT_PARAMS, width, height)
           # sourceImage.data
    /\ canvasData # sourceImage.data
    /\ canvasData # Effect(sourceImage.data, DEFAULT_PARAMS, width, height)
    /\ canvasData # Effect(Effect(sourceImage.data, DEFAULT_PARAMS, width,
                                  height), params, width, height)

\* C11: every effect returns a buffer of the width and height of its
\* input: the pixel array has the 4 * W * H elements of the input's, and the
\* canvas and the processor keep their size.
C11_ShapePreserved ==
    LastRan(EffectTypes) =>
        /\ DOMAIN lastCall.output = DOMAIN lastCall.input
        /\ DOMAIN lastCall.output = 0 .. 4 * lastCall.W * lastCall.H - 1
        /\ width = lastCall.W /\ height = lastCall.H
        /\ canvasW = lastCall.W /\ canvasH = lastCall.H
        /\ imageData.width = lastCall.W /\ imageData.height = lastCall.H

\* Witness of C11: the cellular effect changed a buffer that is not square.
C11_Witness ==
    /\ LastRan({"cellular"})
    /\ lastCall.W # lastCall.H
    /\ lastCall.output # lastCall.input

\* The cells on the four edges of a W x H grid.
EdgeCells(W, H) ==
    {c \in 0 .. W * H - 1 :
        c % W = 0 \/ c % W = W - 1 \/ c \div W = 0 \/ c \div W = H - 1}

\* C12: in the cellular effect every edge cell keeps, after any number of
\* generations up to the one asked for, the value it had at initialization,
\* and the recolour of an edge pixel uses that value.
C12_EdgesFixed ==
    LastRan({"cellular"}) =>
        LET W == lastCall.W
            H == lastCall.H
            p == lastCall.params
            g0 == InitialGrid(lastCall.input, W, H)
        IN  \A c \in EdgeCells(W, H) :
                /\ \A n \in 0 .. p.iterations : Evolve(g0, n, W, H)[c] = g0[c]
                /\ \A ch \in 0 .. 2 :
                       lastCall.output[4 * c + ch]
                           = Darken(lastCall.input[4 * c + ch], g0[c], p.intensity)

\* Witness of C12: a run in which the rule changed an interior cell, while
\* an edge cell that is alive has three live neighbours or more than three
\* (the rule would have changed or kept it; the loop did not visit it).
C12_Witness ==
    /\ LastRan({"cellular"})
    /\ LET W == lastCall.W
           H == lastCall.H
           g0 == InitialGrid(lastCall.input, W, H)
           g == Evolve(g0, lastCall.params.iterations, W, H)
       IN  /\ \E c \in DOMAIN g0 : g[c] # g0[c]
           /\ \E c \in EdgeCells(W, H) :
                  /\ g0[c] = 1
                  /\ lastCall.output[4 * c] # lastCall.input[4 * c]
                  /\ GenerationWithEdges(g0, W, H)[c] # g0[c]

\* The 2 x 2 buffer whose pixels are all black and fully opaque.
BlackOpaque2x2 == [k \in 0 .. 15 |-> IF k % 4 = 3 THEN 255 ELSE 0]

\* The call of the scenario: Chromatic Rift on the black opaque 2 x 2 buffer.
ChromaticRiftOnBlack ==
    /\ lastCall.done
    /\ lastCall.params = [ effectType |-> "chromatic", intensity |-> 85,
                           scale |-> 60, iterations |-> 16, seed |-> 42 ]
    /\ lastCall.W = 2 /\ lastCall.H = 2
    /\ lastCall.input = BlackOpaque2x2

\* C13: Chromatic Rift applied to a 2 x 2 black, fully opaque buffer ends
\* and returns a 2 x 2 buffer whose four pixels have alpha 255.
C13_ChromaticRiftKeepsOpaque ==
    ChromaticRiftOnBlack =>
        /\ status = "ready"
        /\ DOMAIN lastCall.output = 0 .. 15
        /\ \A pix \in 0 .. 3 : lastCall.output[4 * pix + 3] = 255
        /\ canvasData = lastCall.output

\* Witness of C13: the scenario's call was made, through the preset table.
C13_Witness ==
    /\ ChromaticRiftOnBlack
    /\ lastCall.params = PRESETS["Chromatic Rift"]
    /\ \E i \in 0 .. 15 :
           ChromaticSrc(1, 1, i, lastCall.params, 2, 2)[1] < 0

\* C14: load does not resample an image that already fits: for a source of
\* width 1..800 and height 1..600 the working buffer, the processor and the
\* canvas have exactly the source's width and height.
C14_FittingImageKept ==
    (status # "new" /\ srcW >= 1 /\ srcH >= 1 /\ srcW <= 800 /\ srcH <= 600)
        => /\ status = "ready"
           /\ width = srcW /\ height = srcH
           /\ canvasW = srcW /\ canvasH = srcH
           /\ imageData.present
           /\ imageData.width = srcW /\ imageData.height = srcH
           /\ canvasData = srcData

\* Witness of C14: the constructor ran on an image smaller than both bounds
\* and much wider than high.
C14_Witness ==
    /\ status = "ready"
    /\ srcW = 500 /\ srcH = 2
    /\ imageData.present

\* C15: a click on DOWNLOAD in the export step exports an image whose
\* content is the processed canvas the editor showed, and the step is
\* landing afterwards.
C15_DownloadExports ==
    exported.clicked
        => /\ exported.done
           /\ exported.pixels = exported.processed
           /\ exported.stepAfter = "landing"

\* The five presets and their values as the specification lists them.
PresetLiterals ==
    [ name \in { "Chromatic Rift", "Mandelbrot Decay", "Cellular Bloom",
                 "Harmonic Distortion", "Perlin Corruption" } |->
        CASE name = "Chromatic Rift" ->
                 [ effectType |-> "chromatic", intensity |-> 85,
                   scale |-> 60, iterations |-> 16, seed |-> 42 ]
          [] name = "Mandelbrot Decay" ->
                 [ effectType |-> "fractal", intensity |-> 75,
                   scale |-> 120, iterations |-> 32, seed |-> 123 ]
          [] name = "Cellular Bloom" ->
                 [ effectType |-> "cellular", intensity |-> 90,
                   scale |-> 50, iterations |-> 12, seed |-> 456 ]
          [] name = "Harmonic Distortion" ->
                 [ effectType |-> "wave", intensity |-> 80,
                   scale |-> 40, iterations |-> 20, seed |-> 789 ]
          [] name = "Perlin Corruption" ->
                 [ effectType |-> "noise", intensity |-> 70,
                   scale |-> 100, iterations |-> 8, seed |-> 999 ] ]

\* C16: the preset table has exactly the five named entries with their
\* literal values in every state the page reaches, whatever presets were
\* applied and controls moved, and while params is the object a preset
\* button set, params has exactly that entry's literal values.
C16_PresetsFixed ==
    /\ DOMAIN presetTable = DOMAIN PresetLiterals
    /\ \A name \in DOMAIN PresetLiterals :
           presetTable[name] = PresetLiterals[name]
    /\ paramsRef \in DOMAIN PresetLiterals
           => params = PresetLiterals[paramsRef]

\* Witness of C16: the page is in the editor, the params object is the
\* Cellular Bloom entry, and the effect ran on the canvas with its values.
C16_Witness ==
    /\ step = "editor"
    /\ paramsRef = "Cellular Bloom"
    /\ params = PresetLiterals["Cellular Bloom"]
    /\ lastCall.done
    /\ lastCall.params = PresetLiterals["Cellular Bloom"]

\* C17: for in-range params, iterations = 1 included, and every buffer of
\* at least 1 x 1, a width or height of 1 included, the effect divides by
\* no zero and returns a complete buffer: one value in 0..255 for every
\* channel of every pixel.
C17_CompleteBuffer ==
    (lastCall.done /\ InRange(lastCall.params))
        => /\ 0 \notin Divisors(lastCall.params, lastCall.W, lastCall.H)
           /\ DOMAIN lastCall.output = 0 .. 4 * lastCall.W * lastCall.H - 1
           /\ \A k \in DOMAIN lastCall.output : lastCall.output[k] \in 0 .. 255

\* Witness of C17: the fractal effect ran with iterations = 1 on a buffer
\* one pixel wide and two high.
C17_Witness ==
    /\ lastCall.done
    /\ InRange(lastCall.params)
    /\ lastCall.params.effectType = "fractal"
    /\ lastCall.params.iterations = 1
    /\ lastCall.W = 1 /\ lastCall.H = 2

\* C18: in the chromatic effect, for every intensity in 0..100, every
\* n = iterations in 1..64 and every i in 0..n-1, the offset of iteration i
\* is floor(intensity * 0.2 * (i+1) / n).
C18_OffsetFlooredOnce ==
    (lastCall.done /\ lastCall.params.effectType = "chromatic"
        /\ InRange(lastCall.params))
        => \A i \in 0 .. lastCall.params.iterations - 1 :
               ChromaticOffset(lastCall.params.intensity, i,
                               lastCall.params.iterations)
                   = (lastCall.params.intensity * 2 * (i + 1))
                         \div (10 * lastCall.params.iterations)

\* C18, amended: for every intensity in 0..100 and the iterations of the
\* chromatic harness, the offset of iteration i is
\* floor(floor(intensity * 0.2) * (i+1) / n): intensity * 0.2 is rounded
\* down to an integer before it is scaled by (i+1) / n.
C18_OffsetFlooredTwice ==
    (lastCall.done /\ lastCall.params.effectType = "chromatic"
        /\ InRange(lastCall.params))
        => \A i \in 0 .. lastCall.params.iterations - 1 :
               ChromaticOffset(lastCall.params.intensity, i,
                               lastCall.params.iterations)
                   = (((lastCall.params.intensity * 2) \div 10) * (i + 1))
                         \div lastCall.params.iterations

\* Witness of C18: the chromatic effect ran with intensity 9 and five
\* iterations; 9 * 0.2 * 4 / 5 = 1.44 while floor(9 * 0.2) * 4 / 5 = 0.8.
C18_Witness ==
    /\ lastCall.done
    /\ lastCall.params.effectType = "chromatic"
    /\ lastCall.params.intensity = 9
    /\ lastCall.params.iterations = 5
    /\ ChromaticOffset(9, 3, 5) = 0

\* C19: when the source is wider than 800 or higher than 600, load sets the
\* dimension that is larger relative to its bound (width / 800 against
\* height / 600) to its bound, and the other one to the nearest integer of
\* the value that keeps the aspect ratio.
C19_LargerRelativeScaled ==
    (status = "ready" /\ (srcW > 800 \/ srcH > 600))
        => IF srcW * 600 >= srcH * 800
           THEN /\ width = 800
                /\ 2 * Abs(height * srcW - 800 * srcH) <= srcW
           ELSE /\ height = 600
                /\ 2 * Abs(width * srcH - 600 * srcW) <= srcH

\* The blue channel of the pixels of the last call, a noise call, whose
\* sample lies inside the buffer: the byte in the output and, in units of
\* 1/200, the number min(255, sourceBlue - colorShift * intensity / 200).
NoiseBlue ==
    LET p == lastCall.params
        W == lastCall.W
        H == lastCall.H
    IN  { [ out |-> lastCall.output[PixelIdx(c[1], c[2], W) + 2],
            v200 |-> Min(51000,
                         200 * lastCall.input[
                                   PixelIdx(NoiseSrc(c[1], c[2], p, W, H)[1],
                                            NoiseSrc(c[1], c[2], p, W, H)[2],
                                            W) + 2]
                         - ColorShift(NoiseValue(c[1], c[2], p, W, H))
                               * p.intensity) ] :
          c \in {e \in Pixels(W, H) :
                    InsideBuffer(NoiseSrc(e[1], e[2], p, W, H), W, H)} }

C21_OutputBytes ==
    (lastCall.done /\ InRange(lastCall.params))
        => /\ Cardinality(DOMAIN lastCall.output) = lastCall.W * lastCall.H * 4
           /\ \A c \in Pixels(lastCall.W, lastCall.H) :
                  \A ch \in 0 .. 3 :
                      /\ PixelIdx(c[1], c[2], lastCall.W) + ch
                             \in DOMAIN lastCall.output
                      /\ lastCall.output[PixelIdx(c[1], c[2], lastCall.W) + ch]
                             \in 0 .. 255

\* Witness of C21: the noise effect ran on a 2 x 2 buffer with full
\* intensity and changed it; its result holds a channel at 0 and one at 255.
C21_Witness ==
    /\ lastCall.done
    /\ InRange(lastCall.params)
    /\ lastCall.params.effectType = "noise"
    /\ lastCall.params.intensity = 100
    /\ lastCall.W = 2 /\ lastCall.H = 2
    /\ lastCall.output # lastCall.input
    /\ \E k \in DOMAIN lastCall.output : lastCall.output[k] = 0
    /\ \E k \in DOMAIN lastCall.output : lastCall.output[k] = 255

\* C22: in the chromatic effect iteration i changes only colour channel
\* i mod 3 of each output pixel and leaves every other channel as it was
\* before that iteration; so with iterations = 1 green and blue are the
\* input's, and with iterations = 2 blue is the input's.
C22_OneChannelPerIteration ==
    (lastCall.done /\ lastCall.params.effectType = "chromatic")
        => LET p == lastCall.params
               W == lastCall.W
               H == lastCall.H
           IN  /\ lastCall.output
                      = ChromaticAfter(p.iterations, lastCall.input, p, W, H)
               /\ \A i \in 0 .. p.iterations - 1 :
                      \A k \in DOMAIN lastCall.input :
                          k % 4 # i % 3
                              => ChromaticAfter(i + 1, lastCall.input, p, W, H)[k]
                                     = ChromaticAfter(i, lastCall.input, p, W, H)[k]
               /\ \A k \in DOMAIN lastCall.input :
                      (k % 4 # 3 /\ k % 4 >= p.iterations)
                          => lastCall.output[k] = lastCall.input[k]

\* Witness of C22: the chromatic effect ran with two iterations and changed
\* the green channel of a pixel; blue is the input's everywhere.
C22_Witness ==
    /\ lastCall.done
    /\ lastCall.params.effectType = "chromatic"
    /\ lastCall.params.iterations = 2
    /\ \E k \in DOMAIN lastCall.input :
           k % 4 = 1 /\ lastCall.output[k] # lastCall.input[k]
    /\ \A k \in DOMAIN lastCall.input :
           k % 4 = 2 => lastCall.output[k] = lastCall.input[k]

\* The live cells among the eight neighbours of cell c of grid g.
LiveNeighbours(g, c, W) ==
    Cardinality({d \in DOMAIN g :
                    /\ d # c
                    /\ Abs((d % W) - (c % W)) <= 1
                    /\ Abs((d \div W) - (c \div W)) <= 1
                    /\ g[d] = 1})

\* One generation of the rule: every interior cell gets its next value from
\* g alone, an edge cell keeps its value.
LifeStep(g, W, H) ==
    [c \in DOMAIN g |->
        IF c \in EdgeCells(W, H) THEN g[c]
        ELSE IF \/ g[c] = 1 /\ LiveNeighbours(g, c, W) \in {2, 3}
                \/ g[c] = 0 /\ LiveNeighbours(g, c, W) = 3
             THEN 1 ELSE 0]

RECURSIVE LifeAfter(_, _, _, _)
\* The grid after n generations of the rule.
LifeAfter(g, n, W, H) ==
    IF n <= 0 THEN g ELSE LifeStep(LifeAfter(g, n - 1, W, H), W, H)

\* C23: in the cellular effect every generation is computed from the grid
\* of the generation before alone: an interior cell is 1 next iff it was
\* live with 2 or 3 live neighbours or dead with exactly 3, no update of a
\* generation shows in the neighbour counts of that generation, and exactly
\* `iterations` generations are run before the recolouring.
C23_GenerationsFromSnapshot ==
    LastRan({"cellular"}) =>
        LET W == lastCall.W
            H == lastCall.H
            p == lastCall.params
            g0 == InitialGrid(lastCall.input, W, H)
        IN  /\ \A n \in 0 .. p.iterations :
                   Evolve(g0, n, W, H) = LifeAfter(g0, n, W, H)
            /\ \A c \in DOMAIN g0 : \A ch \in 0 .. 2 :
                   lastCall.output[4 * c + ch]
                       = Darken(lastCall.input[4 * c + ch],
                                LifeAfter(g0, p.iterations, W, H)[c],
                                p.intensity)

\* Witness of C23: two generations on a grid where an update made in place
\* would have changed a neighbour's count in the first generation, and
\* where the second generation differs from the first; the picture shows
\* the second one.
C23_Witness ==
    /\ LastRan({"cellular"})
    /\ lastCall.params.iterations = 2
    /\ LET W == lastCall.W
           H == lastCall.H
           g0 == InitialGrid(lastCall.input, W, H)
           g1 == LifeAfter(g0, 1, W, H)
           g2 == LifeAfter(g0, 2, W, H)
       IN  /\ GenerationInPlace(g0, W, H) # g1
           /\ g2 # g1
           /\ \E c \in DOMAIN g0 :
                  /\ g2[c] # g1[c]
                  /\ lastCall.output[4 * c]
                         # Darken(lastCall.input[4 * c], g1[c],
                                  lastCall.params.intensity)

\* C24: in the fractal effect the recorded index of every pixel is in
\* 0..iterations-1, the displacement is floor(index / iterations * intensity)
\* and so in 0..intensity-1 when intensity > 0, and the pixel is copied from
\* the source at x and y plus that one displacement, wrapped.
C24_FractalDisplacement ==
    (LastRan({"fractal"}) /\ InRange(lastCall.params))
        => LET p == lastCall.params
               W == lastCall.W
               H == lastCall.H
           IN  \A c \in Pixels(W, H) :
                   LET index == MandelbrotValue(c[1], c[2], p, W, H)
                       d == (index * p.intensity) \div p.iterations
                   IN  /\ index \in 0 .. p.iterations - 1
                       /\ FractalDisplacement(c[1], c[2], p, W, H) = d
                       /\ p.intensity > 0 => d \in 0 .. p.intensity - 1
                       /\ \A ch \in 0 .. 3 :
                              lastCall.output[PixelIdx(c[1], c[2], W) + ch]
                                  = lastCall.input[
                                        PixelIdx((c[1] + d) % W, (c[2] + d) % H, W)
                                        + ch]

\* C25: load never enlarges an image: for every source of at least 1 x 1
\* the working buffer is no wider and no higher than the source, also when
\* only one of the two dimensions exceeds its bound.
C25_NeverEnlarged ==
    (status # "new" /\ srcW >= 1 /\ srcH >= 1)
        => /\ width <= srcW /\ height <= srcH
           /\ imageData.present
                  => imageData.width <= srcW /\ imageData.height <= srcH

\* C26: load keeps the buffer non-degenerate: for every source of at least
\* 1 x 1, whatever its aspect ratio, the working buffer has a width and a
\* height of at least 1.
C26_NonDegenerate ==
    (status # "new" /\ srcW >= 1 /\ srcH >= 1)
        => /\ width >= 1 /\ height >= 1
           /\ imageData.present
           /\ imageData.width >= 1 /\ imageData.height >= 1

\* C27: process() is independent of the earlier process() calls on the
\* same instance: after any sequence of calls the canvas holds the last
\* call's effect applied once to the image as the constructor resampled it.
C27_IndependentOfEarlierCalls ==
    (status = "ready" /\ calls >= 1 /\ lastCall.done)
        => canvasData
               = Effect(imageData.data, lastCall.params, width, height)

\* C28: when the files are uploaded one after the other, then once all the
\* loads have completed the source image of the editor is the image of the
\* file uploaded last, whatever order the loads completed in and whatever
\* was clicked in between.
C28_LastUploadWins ==
    ( /\ \A u \in 1 .. MaxUploads : loads[u].stage = "done"
      /\ step \in {"editor", "export"} )
        => /\ sourceImage.present
           /\ sourceImage.file = loads[MaxUploads].file

\* C29: in every state the page reaches, whatever the interleaving of
\* uploads, completed loads, abort, export, cancel and download, the step is
\* editor or export only if sourceImage is not null.
C29_EditorHasImage ==
    step \in {"editor", "export"} => sourceImage.present

\* Witness of C29: the export dialog is open on the image of one upload
\* while the Image of another upload is still decoding.
C29_Witness ==
    /\ step = "export"
    /\ sourceImage.present
    /\ \E u \in 1 .. MaxUploads : loads[u].stage = "decoding"
    /\ \E u \in 1 .. MaxUploads :
           loads[u].stage = "done" /\ loads[u].file = sourceImage.file

====
